---- MODULE Spec2Model ----
(***************************************************************************)
(* Model of the paymaster sponsorship signing service                      *)
(* (paymaster-service/src/signature_service.rs, key_manager.rs, main.rs).  *)
(*                                                                         *)
(* Byte buffers are sequences of segments.  A literal segment carries      *)
(* concrete bytes (0..255).  The outputs of keccak256 and of the ECDSA     *)
(* signing primitive are symbolic segments that remember their input, so   *)
(* the hash is collision free and the signature is a deterministic         *)
(* function of (key, digest), as RFC 6979 signing is.                      *)
(* Strings are sequences of one-character strings.                         *)
(***************************************************************************)
EXTENDS Integers, Sequences, FiniteSets, TLC

\* ------------------------------------------------------------------ bounds
\* Largest clock reading (whole seconds) the model explores.
MaxTime == 2

\* ------------------------------------------------------- generic sequences
RECURSIVE Rep(_, _)
Rep(s, n) == IF n <= 0 THEN <<>> ELSE s \o Rep(s, n - 1)

Zeros(n) == [i \in 1..n |-> 0]

Drop(s, n) == SubSeq(s, n + 1, Len(s))

\* ------------------------------------------------------------ byte buffers
\* Vec<u8> holding only concrete bytes.
Lit(bytes) ==
    IF bytes = <<>> THEN <<>>
    ELSE <<[k |-> "lit", b |-> bytes, x |-> <<>>, key |-> <<>>, lo |-> 0, hi |-> 0]>>

SegLen(s) == IF s.k = "lit" THEN Len(s.b) ELSE s.hi - s.lo

\* Vec::len
RECURSIVE BLen(_)
BLen(buf) == IF buf = <<>> THEN 0 ELSE SegLen(buf[1]) + BLen(Tail(buf))

\* Two neighbouring segments that are one run of bytes.
Joins(s, t) ==
    \/ s.k = "lit" /\ t.k = "lit"
    \/ s.k # "lit" /\ s.k = t.k /\ s.x = t.x /\ s.key = t.key /\ s.hi = t.lo

Join(s, t) ==
    IF s.k = "lit" THEN [s EXCEPT !.b = s.b \o t.b] ELSE [s EXCEPT !.hi = t.hi]

\* Vec::extend_from_slice: a followed by b.
Cat(a, b) ==
    IF a = <<>> THEN b
    ELSE IF b = <<>> THEN a
    ELSE IF Joins(a[Len(a)], b[1])
         THEN SubSeq(a, 1, Len(a) - 1) \o <<Join(a[Len(a)], b[1])>> \o Tail(b)
         ELSE a \o b

\* The first n bytes of one segment / the segment without its first n bytes.
SegTake(s, n) ==
    IF s.k = "lit" THEN [s EXCEPT !.b = SubSeq(s.b, 1, n)] ELSE [s EXCEPT !.hi = s.lo + n]

SegDrop(s, n) ==
    IF s.k = "lit" THEN [s EXCEPT !.b = Drop(s.b, n)] ELSE [s EXCEPT !.lo = s.lo + n]

RECURSIVE BTake(_, _)
BTake(buf, n) ==
    IF n <= 0 \/ buf = <<>> THEN <<>>
    ELSE IF SegLen(buf[1]) <= n
         THEN Cat(<<buf[1]>>, BTake(Tail(buf), n - SegLen(buf[1])))
         ELSE <<SegTake(buf[1], n)>>

RECURSIVE BDrop(_, _)
BDrop(buf, n) ==
    IF n <= 0 \/ buf = <<>> THEN buf
    ELSE IF SegLen(buf[1]) <= n
         THEN BDrop(Tail(buf), n - SegLen(buf[1]))
         ELSE <<SegDrop(buf[1], n)>> \o Tail(buf)

\* The slice buf[from..to] (from inclusive, to exclusive, counted in bytes).
Slice(buf, from, to) == BTake(BDrop(buf, from), to - from)

\* A sum over the concrete bytes a buffer is made of.
RECURSIVE SumSeq(_)
SumSeq(s) == IF s = <<>> THEN 0 ELSE (s[1] + SumSeq(Tail(s))) % 256

RECURSIVE Checksum(_)
Checksum(buf) ==
    IF buf = <<>> THEN 0
    ELSE ((IF buf[1].k = "lit" THEN SumSeq(buf[1].b)
           ELSE Checksum(buf[1].x) + SumSeq(buf[1].key) + 1) + Checksum(Tail(buf))) % 256

\* ---------------------------------------------------------------- integers
\* uN::to_be_bytes: n as w big-endian bytes.
RECURSIVE ToBeBytes(_, _)
ToBeBytes(n, w) ==
    IF w = 0 THEN <<>> ELSE Append(ToBeBytes(n \div 256, w - 1), n % 256)

\* ------------------------------------------------------------------ hex
HexDigits == <<"0", "1", "2", "3", "4", "5", "6", "7", "8", "9",
               "a", "b", "c", "d", "e", "f">>
HexUpper == <<"0", "1", "2", "3", "4", "5", "6", "7", "8", "9",
              "A", "B", "C", "D", "E", "F">>

IsHexChar(c) == \E i \in 1..16 : HexDigits[i] = c \/ HexUpper[i] = c

HexVal(c) == (CHOOSE i \in 1..16 : HexDigits[i] = c \/ HexUpper[i] = c) - 1

\* hex::decode: Err for an odd length or a character that is no hex digit.
hex_decode_ok(str) ==
    /\ Len(str) % 2 = 0
    /\ \A i \in 1..Len(str) : IsHexChar(str[i])

hex_decode(str) ==
    [i \in 1..(Len(str) \div 2) |-> 16 * HexVal(str[2 * i - 1]) + HexVal(str[2 * i])]

\* str::strip_prefix("0x").unwrap_or(str)
strip_prefix_0x(str) ==
    IF Len(str) >= 2 /\ str[1] = "0" /\ str[2] = "x" THEN Drop(str, 2) ELSE str

\* SignatureService::decode_hex
decode_hex(hex_str) ==
    LET hex_clean == strip_prefix_0x(hex_str)
    IN  IF hex_decode_ok(hex_clean) THEN hex_decode(hex_clean) ELSE <<>>

\* ------------------------------------------------------------ cryptography
\* Keccak256::digest: 32 bytes determined by the input, collision free.
Keccak256(buf) ==
    <<[k |-> "keccak", b |-> <<>>, x |-> buf, key |-> <<>>, lo |-> 0, hi |-> 32]>>


\* secp256k1 recoverable signing (RFC 6979 nonce): the 64-byte compact
\* signature and the recovery id are functions of the key and the digest.
RecoveryId(secret_key, digest) == (SumSeq(secret_key) + Checksum(digest)) % 2

sign_ecdsa_recoverable(secret_key, digest) ==
    [recovery_id |-> RecoveryId(secret_key, digest),
     compact_sig |-> <<[k |-> "ecdsa", b |-> <<>>, x |-> digest,
                        key |-> secret_key, lo |-> 0, hi |-> 64]>>]

\* secp256k1 non-recoverable signing: the 64-byte compact signature.
sign_ecdsa(secret_key, digest) ==
    <<[k |-> "ecdsa", b |-> <<>>, x |-> digest, key |-> secret_key, lo |-> 0, hi |-> 64]>>

\* The order of the secp256k1 group, big-endian.
CurveOrder ==
    <<255, 255, 255, 255, 255, 255, 255, 255, 255, 255, 255, 255, 255, 255, 255, 254,
      186, 174, 220, 230, 175, 72, 160, 59, 191, 210, 94, 140, 208, 54, 65, 65>>

RECURSIVE LexLess(_, _)
LexLess(a, b) ==
    /\ a # <<>>
    /\ \/ a[1] < b[1]
       \/ a[1] = b[1] /\ LexLess(Tail(a), Tail(b))

\* SecretKey::from_slice: 32 bytes, not zero, below the group order.
SecretKey_from_slice_ok(key_bytes) ==
    /\ Len(key_bytes) = 32
    /\ key_bytes # Zeros(32)
    /\ LexLess(key_bytes, CurveOrder)

\* Message::from_digest_slice: exactly 32 bytes.
MESSAGE_SIZE == 32

from_digest_slice_ok(digest) == BLen(digest) = MESSAGE_SIZE

\* -------------------------------------------------------------- KeyManager
\* KeyManager::new: the configured keys that decode to a secret key; the
\* others are skipped.
KeyManager_new(verifier_keys) ==
    LET loaded == {name \in DOMAIN verifier_keys :
                      /\ hex_decode_ok(verifier_keys[name])
                      /\ SecretKey_from_slice_ok(hex_decode(verifier_keys[name]))}
    IN  [name \in loaded |-> hex_decode(verifier_keys[name])]

KmResult(err, sig, handed) == [err |-> err, sig |-> sig, handed |-> handed]

\* KeyManager::sign_sponsorship: hashes the message, signs, 64 bytes.
KeyManager_sign_sponsorship(keys, verifier_name, message) ==
    IF verifier_name \notin DOMAIN keys
    THEN KmResult("VerifierNotFound", <<>>, <<>>)
    ELSE LET hash == Keccak256(message)
         IN  IF ~from_digest_slice_ok(hash)
             THEN KmResult("SigningError", <<>>, <<>>)
             ELSE KmResult("", sign_ecdsa(keys[verifier_name], hash), hash)

\* sign_eip191_message building the message before it looks the key up.
KeyManager_sign_eip191_message_digest_first(keys, verifier_name, message) ==
    IF ~from_digest_slice_ok(message)
    THEN KmResult("SigningError", <<>>, <<>>)
    ELSE IF verifier_name \notin DOMAIN keys
    THEN KmResult("VerifierNotFound", <<>>, <<>>)
    ELSE LET signature == sign_ecdsa_recoverable(keys[verifier_name], message)
             r  == Slice(signature.compact_sig, 0, 32)
             s  == Slice(signature.compact_sig, 32, 64)
             v  == (27 + signature.recovery_id) % 256
         IN  KmResult("", Cat(Cat(r, s), Lit(<<v>>)), message)

\* sign_eip191_message with the bare recovery id as last byte.
KeyManager_sign_eip191_message_bare_v(keys, verifier_name, message) ==
    IF verifier_name \notin DOMAIN keys
    THEN KmResult("VerifierNotFound", <<>>, <<>>)
    ELSE IF ~from_digest_slice_ok(message)
    THEN KmResult("SigningError", <<>>, <<>>)
    ELSE LET signature == sign_ecdsa_recoverable(keys[verifier_name], message)
             r  == Slice(signature.compact_sig, 0, 32)
             s  == Slice(signature.compact_sig, 32, 64)
             v  == signature.recovery_id % 256
         IN  KmResult("", Cat(Cat(r, s), Lit(<<v>>)), message)

\* KeyManager::sign_eip191_message: signs the message as it is given,
\* r || s || v with v = 27 + recovery id.
KeyManager_sign_eip191_message(keys, verifier_name, message) ==
    IF verifier_name \notin DOMAIN keys
    THEN KmResult("VerifierNotFound", <<>>, <<>>)
    ELSE IF ~from_digest_slice_ok(message)
    THEN KmResult("SigningError", <<>>, <<>>)
    ELSE LET signature == sign_ecdsa_recoverable(keys[verifier_name], message)
             r  == Slice(signature.compact_sig, 0, 32)
             s  == Slice(signature.compact_sig, 32, 64)
             v  == (27 + signature.recovery_id) % 256
         IN  KmResult("", Cat(Cat(r, s), Lit(<<v>>)), message)

\* KeyManager::get_verifier_count
get_verifier_count(keys) == Cardinality(DOMAIN keys)

\* -------------------------------------------------------- SignatureService
\* pack_for_paymaster aborts when a gas field decodes to more than 32 bytes
\* (32 - len underflows / the slice start is out of range).
pack_panics(user_op) ==
    \/ Len(decode_hex(user_op.account_gas_limits)) > 32
    \/ Len(decode_hex(user_op.gas_fees)) > 32

\* The value copied to the start of the 32-byte block.
LeftAligned32(bytes) == bytes \o Zeros(32 - Len(bytes))

\* let mut x_32 = [0u8; 32]; x_32[32 - x.len()..].copy_from_slice(&x)
RightAligned32(bytes) == Zeros(32 - Len(bytes)) \o bytes

\* SignatureService::pack_for_paymaster
pack_for_paymaster(user_op) ==
    LET init_code      == decode_hex(user_op.init_code)
        call_data      == decode_hex(user_op.call_data)
        init_code_hash == Keccak256(Lit(init_code))
        call_data_hash == Keccak256(Lit(call_data))
        sender_bytes   == decode_hex(user_op.sender)
        gas_limits_32  == RightAligned32(decode_hex(user_op.account_gas_limits))
        gas_fees_32    == RightAligned32(decode_hex(user_op.gas_fees))
        e1 == Cat(Lit(Zeros(12)), Lit(sender_bytes))
        e2 == Cat(e1, Lit(ToBeBytes(user_op.nonce, 32)))
        e3 == Cat(e2, init_code_hash)
        e4 == Cat(e3, call_data_hash)
        e5 == Cat(e4, Lit(gas_limits_32))
        e6 == Cat(e5, Lit(ToBeBytes(user_op.pre_verification_gas, 32)))
        e7 == Cat(e6, Lit(gas_fees_32))
    IN  e7

\* if padding != 32 { encoded.extend_from_slice(&vec![0u8; padding]) }
Padding(len) ==
    LET padding == 32 - (len % 32)
    IN  IF padding # 32 THEN Zeros(padding) ELSE <<>>

\* The buffer create_paymaster_hash builds around packed_user_op and hashes
\* (its local `encoded`).
abi_encode(self, packed_user_op, valid_until, valid_after) ==
    LET offset            == 5 * 32
        offset_bytes      == Zeros(24) \o ToBeBytes(offset, 8)
        chain_id_bytes    == Zeros(24) \o ToBeBytes(self.chain_id, 8)
        valid_until_bytes == Zeros(24) \o ToBeBytes(valid_until, 8)
        valid_after_bytes == Zeros(24) \o ToBeBytes(valid_after, 8)
        length_bytes      == Zeros(24) \o ToBeBytes(BLen(packed_user_op), 8)
        e1 == Lit(offset_bytes)
        e2 == Cat(e1, Lit(chain_id_bytes))
        e3 == Cat(Cat(e2, Lit(Zeros(12))), Lit(self.paymaster_address))
        e4 == Cat(e3, Lit(valid_until_bytes))
        e5 == Cat(e4, Lit(valid_after_bytes))
        e6 == Cat(e5, Lit(length_bytes))
        e7 == Cat(e6, packed_user_op)
        e8 == Cat(e7, Lit(Padding(BLen(packed_user_op))))
    IN  e8

\* SignatureService::create_paymaster_hash
create_paymaster_hash(self, user_op, valid_until, valid_after) ==
    Keccak256(abi_encode(self, pack_for_paymaster(user_op), valid_until, valid_after))

\* b"\x19Ethereum Signed Message:\n32"
Eip191Prefix ==
    <<25, 69, 116, 104, 101, 114, 101, 117, 109, 32, 83, 105, 103, 110, 101, 100, 32,
      77, 101, 115, 115, 97, 103, 101, 58, 10, 51, 50>>

\* SignatureService::create_eip191_message
create_eip191_message(hash) == Cat(Lit(Eip191Prefix), hash)

\* SignatureService::encode_paymaster_data
encode_paymaster_data(signature, valid_until, valid_after) ==
    Cat(Cat(signature, Lit(ToBeBytes(valid_until, 8))), Lit(ToBeBytes(valid_after, 8)))


NoResponse == <<>>

\* hex::encode of a byte buffer.
RECURSIVE hex_encode_bytes(_)
hex_encode_bytes(bytes) ==
    IF bytes = <<>> THEN <<>>
    ELSE <<HexDigits[(bytes[1] \div 16) + 1], HexDigits[(bytes[1] % 16) + 1]>>
         \o hex_encode_bytes(Tail(bytes))

hex_encode(buf) ==
    [i \in 1..Len(buf) |->
        IF buf[i].k = "lit"
        THEN [k |-> "chars", b |-> hex_encode_bytes(buf[i].b), x |-> <<>>,
              key |-> <<>>, lo |-> 0, hi |-> 0]
        ELSE [k |-> "hex", b |-> <<>>, x |-> <<buf[i]>>,
              key |-> <<>>, lo |-> 2 * buf[i].lo, hi |-> 2 * buf[i].hi]]

\* String::len of a hex_encode result.
RECURSIVE HexLen(_)
HexLen(str) ==
    IF str = <<>> THEN 0
    ELSE (IF str[1].k = "chars" THEN Len(str[1].b) ELSE str[1].hi - str[1].lo)
         + HexLen(Tail(str))

\* What a call of sign_sponsorship did: its result (the error, "Ok", or
\* "panic" for the abort of the task), the steps it executed and the values
\* they produced.
RejectedApiKey ==
    [outcome |-> "InvalidApiKey", steps |-> <<"api_key">>,
     packed |-> <<>>, encoded |-> <<>>, paymaster_hash |-> <<>>, eip191_message |-> <<>>,
     to_signer |-> <<>>, handed |-> <<>>, signature |-> <<>>, response |-> NoResponse]

RejectedTimestamp ==
    [RejectedApiKey EXCEPT !.outcome = "InvalidTimestamp",
                           !.steps = <<"api_key", "timestamp">>]

Panicked ==
    [RejectedApiKey EXCEPT !.outcome = "panic",
                           !.steps = <<"api_key", "timestamp", "pack">>]

StepsOf(err) ==
    <<"api_key", "timestamp", "pack", "hash", "eip191", "key_lookup">>
    \o (IF err = "VerifierNotFound" THEN <<>>
        ELSE IF err = "SigningError" THEN <<"digest">>
        ELSE <<"digest", "sign", "encode">>)

\* Step 6 and the Ok(..) of sign_sponsorship, or the error `?` returns.
respond(request, valid_after, packed, encoded, paymaster_hash, eip191_message, res) ==
    [outcome        |-> IF res.err = "" THEN "Ok" ELSE res.err,
     steps          |-> StepsOf(res.err),
     packed         |-> packed,
     encoded        |-> encoded,
     paymaster_hash |-> paymaster_hash,
     eip191_message |-> eip191_message,
     to_signer      |-> eip191_message,
     handed         |-> res.handed,
     signature      |-> res.sig,
     response       |->
        IF res.err # "" THEN NoResponse
        ELSE <<[signature      |-> hex_encode(res.sig),
                valid_until    |-> request.valid_until,
                valid_after    |-> valid_after,
                paymaster_data |-> hex_encode(encode_paymaster_data(
                                       res.sig, request.valid_until, valid_after))]>>]

\* Step 5: sign with the default verifier key.
sign_message(self, request, valid_after, packed, encoded, paymaster_hash, eip191_message) ==
    respond(request, valid_after, packed, encoded, paymaster_hash, eip191_message,
            KeyManager_sign_eip191_message(self.key_manager, "default", eip191_message))

\* Step 4: the EIP-191 formatting.
sign_hash(self, request, valid_after, packed, encoded, paymaster_hash) ==
    sign_message(self, request, valid_after, packed, encoded, paymaster_hash,
                 create_eip191_message(paymaster_hash))

\* let valid_after = request.valid_after.unwrap_or(0)
unwrap_or_0(valid_after) == IF valid_after = <<>> THEN 0 ELSE valid_after[1]

\* SignatureService::sign_sponsorship from step 3 on: the request has passed
\* the API key and the timestamp checks.
sign_validated(self, request) ==
    IF pack_panics(request.user_operation) THEN Panicked
    ELSE sign_hash(self, request, unwrap_or_0(request.valid_after),
                   pack_for_paymaster(request.user_operation),
                   abi_encode(self, pack_for_paymaster(request.user_operation),
                              request.valid_until, unwrap_or_0(request.valid_after)),
                   create_paymaster_hash(self, request.user_operation, request.valid_until,
                                         unwrap_or_0(request.valid_after)))

\* The expiry check made before the API key check.
sign_sponsorship_expiry_first(self, request, clock) ==
    IF request.valid_until <= clock THEN RejectedTimestamp
    ELSE IF request.api_key \notin self.api_keys THEN RejectedApiKey
    ELSE sign_validated(self, request)

\* The expiry check with < for <=.
sign_sponsorship_strict_expiry(self, request, clock) ==
    IF request.api_key \notin self.api_keys THEN RejectedApiKey
    ELSE IF request.valid_until < clock THEN RejectedTimestamp
    ELSE sign_validated(self, request)

\* The expiry check one second early.
sign_sponsorship_early_expiry(self, request, clock) ==
    IF request.api_key \notin self.api_keys THEN RejectedApiKey
    ELSE IF request.valid_until <= clock + 1 THEN RejectedTimestamp
    ELSE sign_validated(self, request)

\* SignatureService::sign_sponsorship when chrono::Utc::now().timestamp()
\* reads clock.
sign_sponsorship(self, request, clock) ==
    IF request.api_key \notin self.api_keys THEN RejectedApiKey
    ELSE IF request.valid_until <= clock THEN RejectedTimestamp
    ELSE sign_validated(self, request)

\* ------------------------------------------------------------------- main
\* main: the SignatureService built from a Config.
main(config) ==
    LET chain_id == IF config.chain_id = <<>> THEN 1 ELSE config.chain_id[1]
        paymaster_address ==
            IF config.paymaster_address # <<>>
            THEN LET addr_clean == strip_prefix_0x(config.paymaster_address[1])
                 IN  IF hex_decode_ok(addr_clean) THEN hex_decode(addr_clean)
                     ELSE Zeros(20)
            ELSE Zeros(20)
    IN  [key_manager       |-> KeyManager_new(config.verifier_keys),
         api_keys          |-> config.api_keys,
         chain_id          |-> chain_id,
         paymaster_address |-> paymaster_address]


\* ----------------------------------------------------------------- inputs
Str0x == <<"0", "x">>

\* "0000...0001" and "0000...0002": 32-byte secret keys in hex.
KeyHex1 == Rep(<<"0">>, 63) \o <<"1">>
KeyHex2 == Rep(<<"0">>, 63) \o <<"2">>
\* Not hex at all, and the zero key SecretKey::from_slice refuses.
KeyHexBad == Rep(<<"z">>, 64)
KeyHexZero == Rep(<<"0">>, 64)

ZeroAddressHex == Str0x \o Rep(<<"0">>, 40)
OtherAddressHex == Str0x \o Rep(<<"a", "b">>, 20)
ShortAddressHex == Str0x \o <<"1", "2", "3", "4">>

ApiKeys == {"test_key_123"}

\* Config values (lib.rs Config): Option fields are <<>> or <<value>>.
TestConfig ==
    [verifier_keys     |-> [n \in {"default"} |-> KeyHex1],
     api_keys          |-> ApiKeys,
     chain_id          |-> <<1>>,
     paymaster_address |-> <<ZeroAddressHex>>]

Configs ==
    { TestConfig,
      [TestConfig EXCEPT !.chain_id = <<>>, !.paymaster_address = <<OtherAddressHex>>,
                         !.verifier_keys = [n \in {"default", "backup"} |->
                                               IF n = "default" THEN KeyHex1 ELSE KeyHex2]],
      [TestConfig EXCEPT !.chain_id = <<137>>],
      [TestConfig EXCEPT !.paymaster_address = <<ShortAddressHex>>,
                         !.verifier_keys = [n \in {"default", "backup", "spare"} |->
                                               IF n = "default" THEN KeyHexBad
                                               ELSE IF n = "backup" THEN KeyHex2
                                               ELSE KeyHexZero]],
      [TestConfig EXCEPT !.paymaster_address = <<>>, !.chain_id = <<5>>] }

\* The configurations of the second service in the two-by-two comparisons.
PairConfigs == { c \in Configs : c.chain_id # <<5>> /\ c.paymaster_address # <<ShortAddressHex>> }

\* The user operation of create_test_request.
TestSender == Str0x \o Rep(<<"1", "2", "3", "4", "5", "6", "7", "8", "9", "0">>, 4)
TestGasLimits == Str0x \o <<"0", "0", "0", "0", "0", "0", "0", "0", "0", "0", "0", "f", "4", "2", "4", "0", "0", "0", "0", "0", "0", "0", "0", "0", "0", "0", "0", "f", "4", "2", "4", "0">>
TestGasFees == Str0x \o <<"0", "0", "0", "0", "0", "0", "0", "0", "0", "0", "7", "7", "3", "5", "9", "4", "0", "0", "0", "0", "0", "0", "0", "0", "0", "0", "3", "b", "9", "a", "c", "a", "0", "0">>

TestUserOp ==
    [sender               |-> TestSender,
     nonce                |-> 1,
     init_code            |-> Str0x,
     call_data            |-> Str0x \o <<"1", "2", "3", "4">>,
     account_gas_limits   |-> TestGasLimits,
     pre_verification_gas |-> 21000,
     gas_fees             |-> TestGasFees,
     paymaster_and_data   |-> Str0x]

\* The fields of a user operation that pack_for_paymaster reads.
PackedFields ==
    {"sender", "nonce", "init_code", "call_data", "account_gas_limits",
     "pre_verification_gas", "gas_fees"}

\* Another well-formed value of each field.
OtherValue(f) ==
    IF f = "sender" THEN Str0x \o Rep(<<"a", "b">>, 20)
    ELSE IF f = "nonce" THEN 2
    ELSE IF f = "init_code" THEN Str0x \o <<"a", "b", "c", "d">>
    ELSE IF f = "call_data" THEN Str0x \o <<"1", "2", "3", "5">>
    ELSE IF f = "account_gas_limits" THEN Str0x \o Rep(<<"1", "1">>, 32)
    ELSE IF f = "pre_verification_gas" THEN 21001
    ELSE Str0x \o Rep(<<"2", "2">>, 32)

\* The test value of a field written another way: without the 0x prefix,
\* as text that is not hex where the test value is empty, with leading zeros.
RewrittenValue(f) ==
    IF f = "sender" THEN Drop(TestSender, 2)
    ELSE IF f = "init_code" THEN <<"z", "z">>
    ELSE Str0x \o Rep(<<"0">>, 32) \o Drop(TestGasLimits, 2)

RewrittenFields == {"sender", "init_code", "account_gas_limits"}

\* Values of the wrong length or that are not hex.
OddValues(f) ==
    IF f = "sender" THEN { Str0x \o <<"1", "2", "3", "4">>, Str0x \o <<"z", "z">> }
    ELSE IF f = "call_data" THEN { <<"1", "2", "3", "4">> }
    ELSE IF f = "account_gas_limits" THEN { Str0x \o Rep(<<"0", "1">>, 33) }
    ELSE IF f = "gas_fees" THEN { Str0x \o <<"0", "g">> }
    ELSE {}

PairUserOps ==
    {TestUserOp}
    \cup { [TestUserOp EXCEPT ![f] = OtherValue(f)] : f \in PackedFields }
    \cup { [TestUserOp EXCEPT ![f] = RewrittenValue(f)] : f \in RewrittenFields }

UserOps ==
    PairUserOps \cup
    { [TestUserOp EXCEPT ![p[1]] = p[2]] : p \in
          UNION { {<<f, v>> : v \in OddValues(f)} : f \in PackedFields } }

\* A user operation with nothing well formed in it.
MalformedUserOp ==
    [TestUserOp EXCEPT !.sender = <<"z", "z">>, !.init_code = <<"0", "x", "0">>,
                       !.account_gas_limits = Str0x \o Rep(<<"0", "1">>, 33)]

\* SponsorshipRequest values: valid_after is <<>> (absent) or <<value>>.
Request(api_key, user_op, valid_until, valid_after) ==
    [api_key |-> api_key, user_operation |-> user_op,
     valid_until |-> valid_until, valid_after |-> valid_after]

Requests ==
    { Request("test_key_123", u, MaxTime + 1, <<0>>) : u \in UserOps }
    \cup { Request(a, TestUserOp, vu, <<0>>) :
               a \in {"test_key_123", "invalid_key"}, vu \in {0, 1, MaxTime + 1} }
    \cup { Request("test_key_123", TestUserOp, MaxTime + 1, va) : va \in {<<>>, <<MaxTime + 2>>} }
    \cup { Request(a, MalformedUserOp, vu, <<>>) :
               a \in {"test_key_123", "invalid_key"}, vu \in {0, MaxTime + 1} }

\* The requests compared two by two: every user operation under one API key
\* and window, and one request that expires while the clock runs.
PairRequests ==
    { Request("test_key_123", u, MaxTime + 1, <<0>>) : u \in PairUserOps }
    \cup { Request("test_key_123", TestUserOp, 1, <<0>>) }

\* ------------------------------------------------------------------ state
VARIABLES
    services,   \* the two deployed SignatureService instances
    now,        \* chrono::Utc::now().timestamp()
    last,       \* the most recent call: <<>> or <<[svc, request, at, call, status]>>
    prev,       \* the call before it (recorded under SpecPair only)
    loaded_config,  \* the Config each service was started from
    tasks,      \* the concurrent tasks of service A (SpecKm only)
    lock,       \* the RwLock around the key map of service A
    km_last,    \* the most recent KeyManager or metrics result
    client_last,        \* the most recent call of a client function
    entry_point_nonce,  \* getNonce(account, key) of the EntryPoint contract
    nonce_task          \* the client's get_validated_nonce call in progress

service_vars == <<services, now, last, prev, loaded_config, tasks, lock, km_last>>

client_vars == <<client_last, entry_point_nonce, nonce_task>>

vars == <<services, now, last, prev, loaded_config, tasks, lock, km_last,
          client_last, entry_point_nonce, nonce_task>>

\* The client has called nothing yet; the account has sent no operation.
ClientNotStarted ==
    /\ client_last = <<>>
    /\ entry_point_nonce = 0
    /\ nonce_task = <<>>

Svc == {"A", "B"}

\* Every SignatureService that main builds from the configurations.
ServiceSet == { main(c) : c \in Configs }

\* sign_sponsorship of each service on each request at each clock reading,
\* evaluated once.
Handled ==
    [self \in ServiceSet, request \in Requests, t \in 0..MaxTime |->
        sign_sponsorship(self, request, t)]

\* What the HTTP client of POST /sign gets: 200 with the response, the
\* status map_err chooses, or no reply when the handler task aborts.
api_sign_sponsorship(result) ==
    IF result.outcome = "Ok" THEN 200
    ELSE IF result.outcome = "panic" THEN 0
    ELSE 400

\* keys: RwLock::new(keys): no reader, no writer.
RwLock_new == [readers |-> {}, writer |-> FALSE]

Started(configs) ==
    /\ loaded_config \in { [s \in Svc |-> IF s = "A" THEN ca ELSE cb] :
                       ca \in {TestConfig}, cb \in configs }
    /\ services = [s \in Svc |-> main(loaded_config[s])]
    /\ now = 0
    /\ last = <<>>
    /\ prev = <<>>
    /\ tasks = <<>>
    /\ lock = RwLock_new
    /\ km_last = <<>>
    /\ ClientNotStarted

Init == Started(Configs)

\* One second passes.
Tick ==
    /\ now < MaxTime
    /\ now' = now + 1
    /\ UNCHANGED <<services, last, prev, loaded_config, tasks, lock, km_last, client_vars>>

\* api::sign_sponsorship: one POST /sign handled by service s.
SignSponsorship(s, request) ==
    /\ last' = <<[svc |-> s, request |-> request, at |-> now,
                  call |-> Handled[services[s], request, now],
                  status |-> api_sign_sponsorship(Handled[services[s], request, now])]>>
    /\ UNCHANGED <<services, now, prev, loaded_config, tasks, lock, km_last, client_vars>>

\* The same, keeping the call before it for comparison.
SignSponsorshipAfter(s, request) ==
    /\ last' = <<[svc |-> s, request |-> request, at |-> now,
                  call |-> Handled[services[s], request, now],
                  status |-> api_sign_sponsorship(Handled[services[s], request, now])]>>
    /\ prev' = last
    /\ UNCHANGED <<services, now, loaded_config, tasks, lock, km_last, client_vars>>

Next ==
    \/ Tick
    \/ \E s \in Svc, request \in Requests : SignSponsorship(s, request)

Spec == Init /\ [][Next]_vars

NextPair ==
    \/ Tick
    \/ \E s \in Svc, request \in PairRequests : SignSponsorshipAfter(s, request)

InitPair == Started(PairConfigs)

SpecPair == InitPair /\ [][NextPair]_vars

\* ------------------------------------------- concurrent use of KeyManager
\* The tasks tokio runs at once against the KeyManager of service A.
MaxTasks == 2

Tasks == 1..MaxTasks

IdleTask == [pc |-> "idle", op |-> <<>>]

\* b"test message", its keccak256 digest, and a 60-byte prefix+hash buffer.
TestMessage == Lit(<<116, 101, 115, 116, 32, 109, 101, 115, 115, 97, 103, 101>>)
TestDigest == Keccak256(TestMessage)
TestEip191Message == create_eip191_message(TestDigest)
\* Another 32-byte digest.
OtherDigest == Keccak256(Lit(<<116, 101, 115, 116>>))

VerifierNames == {"default", "nonexistent_verifier"}

\* A request that passes the API key and the timestamp checks.
TestRequest == Request("test_key_123", TestUserOp, MaxTime + 1, <<0>>)

Op(fn, verifier_name, message, request) ==
    [fn |-> fn, verifier_name |-> verifier_name, message |-> message, request |-> request]

\* The calls that reach the key map: the two signing functions of
\* KeyManager, get_metrics (through get_verifier_count) and
\* SignatureService::sign_sponsorship (through sign_eip191_message).
KmOps ==
    { Op("sign_sponsorship", n, TestMessage, <<>>) : n \in VerifierNames }
    \cup { Op("sign_eip191_message", n, m, <<>>) :
               n \in VerifierNames, m \in {TestDigest, TestEip191Message} }
    \cup { Op("sign_eip191_message", "default", OtherDigest, <<>>),
           Op("get_metrics", "", <<>>, <<>>),
           Op("sign_request", "default", <<>>, <<TestRequest>>) }

\* SignatureService::get_metrics
get_metrics(self) ==
    [verifier_count |-> get_verifier_count(self.key_manager),
     service_status |-> "healthy"]

\* What a call returns once it holds the read guard.
Returned(self, op) ==
    IF op.fn = "sign_sponsorship"
    THEN KeyManager_sign_sponsorship(self.key_manager, op.verifier_name, op.message)
    ELSE IF op.fn = "sign_eip191_message"
    THEN KeyManager_sign_eip191_message(self.key_manager, op.verifier_name, op.message)
    ELSE get_metrics(self)

\* The configurations service A is started from under SpecKm: the test
\* configuration and the one whose "default" key is not hex.
KmConfigs == { c \in Configs : c.chain_id = <<1>> }

InitKm ==
    /\ loaded_config \in { [s \in Svc |-> IF s = "A" THEN ca ELSE TestConfig] :
                              ca \in KmConfigs }
    /\ services = [s \in Svc |-> main(loaded_config[s])]
    /\ now = 0
    /\ last = <<>>
    /\ prev = <<>>
    /\ tasks = [t \in Tasks |-> IdleTask]
    /\ lock = RwLock_new
    /\ km_last = <<>>
    /\ ClientNotStarted

\* A task calls one of the operations and asks for the read guard
\* (self.keys.read()).
CallOp(t, op) ==
    /\ tasks[t].pc = "idle"
    /\ tasks' = [tasks EXCEPT ![t] = [pc |-> "waiting", op |-> <<op>>]]
    /\ UNCHANGED <<services, now, last, prev, loaded_config, lock, km_last, client_vars>>

\* The await of AcquireRead taking the lock for writing.
AcquireWrite(t) ==
    /\ tasks[t].pc = "waiting"
    /\ ~lock.writer
    /\ lock.readers = {}
    /\ lock' = [lock EXCEPT !.writer = TRUE]
    /\ tasks' = [tasks EXCEPT ![t].pc = "reading"]
    /\ UNCHANGED <<services, now, last, prev, loaded_config, km_last, client_vars>>

\* .await on the read guard completes: no writer holds the lock.
AcquireRead(t) ==
    /\ tasks[t].pc = "waiting"
    /\ ~lock.writer
    /\ lock' = [lock EXCEPT !.readers = @ \cup {t}]
    /\ tasks' = [tasks EXCEPT ![t].pc = "reading"]
    /\ UNCHANGED <<services, now, last, prev, loaded_config, km_last, client_vars>>

\* The operation reads the key map, returns and drops the guard.
ReturnOp(t) ==
    /\ tasks[t].pc = "reading"
    /\ lock' = [lock EXCEPT !.readers = @ \ {t}]
    /\ tasks' = [tasks EXCEPT ![t] = IdleTask]
    /\ IF tasks[t].op[1].fn = "sign_request"
       THEN /\ last' = <<[svc |-> "A", request |-> tasks[t].op[1].request[1], at |-> now,
                          call |-> Handled[services["A"], tasks[t].op[1].request[1], now],
                          status |-> api_sign_sponsorship(
                              Handled[services["A"], tasks[t].op[1].request[1], now])]>>
            /\ UNCHANGED km_last
       ELSE /\ km_last' = <<[op |-> tasks[t].op[1],
                             res |-> Returned(services["A"], tasks[t].op[1])]>>
            /\ UNCHANGED last
    /\ UNCHANGED <<services, now, prev, loaded_config, client_vars>>

NextKm ==
    \/ \E t \in Tasks, op \in KmOps : CallOp(t, op)
    \/ \E t \in Tasks : AcquireRead(t)
    \/ \E t \in Tasks : ReturnOp(t)

SpecKm == InitKm /\ [][NextKm]_vars

TypeOK == now \in 0..MaxTime


\* ----------------------------------------------------------------- claims
Handles(c) == c # <<>>

ApiKeyAccepted(c) == c[1].request.api_key \in services[c[1].svc].api_keys

Executed(c, step) == \E i \in 1..Len(c[1].call.steps) : c[1].call.steps[i] = step

\* A 32-byte word holding n right-aligned.
Word(n) == Lit(Zeros(24) \o ToBeBytes(n, 8))

\* C1: a request whose api_key is not among the accepted keys gets the
\* invalid-API-key error whatever its other fields are, and nothing is
\* packed, hashed, looked up or signed for it.
C1_InvalidApiKeyBeforeAnyWork ==
    (Handles(last) /\ ~ApiKeyAccepted(last)) =>
        /\ last[1].call.outcome = "InvalidApiKey"
        /\ last[1].call.steps = <<"api_key">>
        /\ last[1].call.packed = <<>>
        /\ last[1].call.encoded = <<>>
        /\ last[1].call.paymaster_hash = <<>>
        /\ last[1].call.to_signer = <<>>
        /\ last[1].call.signature = <<>>
        /\ last[1].call.response = NoResponse

\* An unknown key on a request that has also expired and is malformed.
C1_Witness ==
    /\ Handles(last)
    /\ ~ApiKeyAccepted(last)
    /\ last[1].request.valid_until <= last[1].at
    /\ last[1].request.user_operation = MalformedUserOp
    /\ last[1].call.outcome = "InvalidApiKey"

\* C2: with an accepted key, valid_until <= now (equality included) gets the
\* expired error and no signature; valid_until > now is never rejected for
\* expiry.
C2_ExpiryBoundary ==
    (Handles(last) /\ ApiKeyAccepted(last)) =>
        IF last[1].request.valid_until <= last[1].at
        THEN /\ last[1].call.outcome = "InvalidTimestamp"
             /\ last[1].call.signature = <<>>
             /\ last[1].call.response = NoResponse
             /\ ~Executed(last, "pack")
        ELSE last[1].call.outcome # "InvalidTimestamp"

\* A request handled in the very second it expires.
C2_Witness ==
    /\ Handles(last)
    /\ ApiKeyAccepted(last)
    /\ last[1].request.valid_until = last[1].at
    /\ last[1].at > 0
    /\ last[1].call.outcome = "InvalidTimestamp"

\* The user_operation fields are well formed: a 20-byte sender, init_code
\* and call_data in hex, gas fields of at most 32 bytes.
IsHexField(str) == hex_decode_ok(strip_prefix_0x(str))

WellFormed(user_op) ==
    /\ IsHexField(user_op.sender) /\ Len(decode_hex(user_op.sender)) = 20
    /\ IsHexField(user_op.init_code)
    /\ IsHexField(user_op.call_data)
    /\ IsHexField(user_op.account_gas_limits)
    /\ Len(decode_hex(user_op.account_gas_limits)) <= 32
    /\ IsHexField(user_op.gas_fees)
    /\ Len(decode_hex(user_op.gas_fees)) <= 32

\* C3: an accepted key, valid_until > now, well-formed fields and a loaded
\* verifier key "default" always give a success response.
C3_WellFormedRequestSucceeds ==
    ( /\ Handles(last)
      /\ ApiKeyAccepted(last)
      /\ last[1].request.valid_until > last[1].at
      /\ WellFormed(last[1].request.user_operation)
      /\ "default" \in DOMAIN services[last[1].svc].key_manager )
    => /\ last[1].call.outcome = "Ok"
       /\ last[1].call.response # NoResponse

\* C4: what is handed to the signer is the 32-byte keccak256 digest of the
\* 60-byte prefix+hash buffer, never that buffer itself.
C4_SignerGetsDigestOfMessage ==
    (Handles(last) /\ Executed(last, "key_lookup")) =>
        /\ BLen(last[1].call.eip191_message) = 60
        /\ last[1].call.to_signer = Keccak256(last[1].call.eip191_message)
        /\ BLen(last[1].call.to_signer) = 32
        /\ last[1].call.to_signer # last[1].call.eip191_message

\* Two calls were made on the same request by services with the same
\* verifier keys, chain id and paymaster address.
SameRequestSameService ==
    /\ Handles(prev) /\ Handles(last)
    /\ prev[1].request = last[1].request
    /\ services[prev[1].svc] = services[last[1].svc]

Expired(c) == c[1].request.valid_until <= c[1].at

BothReachedSigner ==
    /\ Handles(prev) /\ Handles(last)
    /\ Executed(prev, "key_lookup") /\ Executed(last, "key_lookup")

\* C7: the same user operation and window under another chain id or another
\* paymaster address gives another encoded buffer, another paymaster hash
\* and another signature.
C7_ChainAndPaymasterBinding ==
    ( /\ BothReachedSigner
      /\ prev[1].request = last[1].request
      /\ \/ services[prev[1].svc].chain_id # services[last[1].svc].chain_id
         \/ services[prev[1].svc].paymaster_address
                # services[last[1].svc].paymaster_address )
    => /\ prev[1].call.encoded # last[1].call.encoded
       /\ prev[1].call.paymaster_hash # last[1].call.paymaster_hash
       /\ prev[1].call.signature # <<>>
       /\ last[1].call.signature # <<>>
       /\ prev[1].call.signature # last[1].call.signature

\* The fields of PackedFields in which two user operations differ.
DifferingFields(u1, u2) == {f \in PackedFields : u1[f] # u2[f]}

\* C8: two requests of one service that differ in exactly one packed field of
\* user_operation have different packed buffers, paymaster hashes and
\* signatures.
C8_SingleFieldSensitivity ==
    ( /\ BothReachedSigner
      /\ prev[1].svc = last[1].svc
      /\ prev[1].request.api_key = last[1].request.api_key
      /\ prev[1].request.valid_until = last[1].request.valid_until
      /\ prev[1].request.valid_after = last[1].request.valid_after
      /\ Cardinality(DifferingFields(prev[1].request.user_operation,
                                     last[1].request.user_operation)) = 1 )
    => /\ prev[1].call.packed # last[1].call.packed
       /\ prev[1].call.paymaster_hash # last[1].call.paymaster_hash
       /\ prev[1].call.signature # <<>>
       /\ last[1].call.signature # <<>>
       /\ prev[1].call.signature # last[1].call.signature

\* A decoded gas field as a bytes32 block.
Bytes32(bytes) == Lit(Zeros(32 - Len(bytes)) \o bytes)

\* C9: for every request that goes on to be signed the packed operation is
\* 224 bytes: 12 zero bytes and the 20-byte sender, nonce, keccak256(init_code),
\* keccak256(call_data), account_gas_limits, pre_verification_gas, gas_fees.
C9_PackedLayout ==
    (Handles(last) /\ Executed(last, "key_lookup")) =>
        LET u == last[1].request.user_operation
            packed == last[1].call.packed
        IN  /\ BLen(packed) = 224
            /\ Slice(packed, 0, 12) = Lit(Zeros(12))
            /\ Len(decode_hex(u.sender)) = 20
            /\ Slice(packed, 12, 32) = Lit(decode_hex(u.sender))
            /\ Slice(packed, 32, 64) = Lit(ToBeBytes(u.nonce, 32))
            /\ Slice(packed, 64, 96) = Keccak256(Lit(decode_hex(u.init_code)))
            /\ Slice(packed, 96, 128) = Keccak256(Lit(decode_hex(u.call_data)))
            /\ Slice(packed, 128, 160) = Bytes32(decode_hex(u.account_gas_limits))
            /\ Slice(packed, 160, 192) = Lit(ToBeBytes(u.pre_verification_gas, 32))
            /\ Slice(packed, 192, 224) = Bytes32(decode_hex(u.gas_fees))

\* The next multiple of 32 from n on.
RoundUp32(n) == ((n + 31) \div 32) * 32

\* C10: the hashed buffer is the offset word 160, the chain id, the paymaster
\* address, valid_until and valid_after as 32-byte right-aligned words, the
\* length word, the packed operation and zero padding to a 32-byte boundary;
\* 416 bytes for a 224-byte packed operation.
C10_EncodedLayout ==
    (Handles(last) /\ Executed(last, "hash")) =>
        LET self    == services[last[1].svc]
            r       == last[1].request
            va      == IF r.valid_after = <<>> THEN 0 ELSE r.valid_after[1]
            packed  == last[1].call.packed
            encoded == last[1].call.encoded
            n       == BLen(packed)
        IN  /\ Slice(encoded, 0, 32) = Word(160)
            /\ Slice(encoded, 32, 64) = Word(self.chain_id)
            /\ Slice(encoded, 64, 96) = Bytes32(self.paymaster_address)
            /\ Slice(encoded, 96, 128) = Word(r.valid_until)
            /\ Slice(encoded, 128, 160) = Word(va)
            /\ Slice(encoded, 160, 192) = Word(n)
            /\ Slice(encoded, 192, 192 + n) = packed
            /\ Slice(encoded, 192 + n, BLen(encoded)) = Lit(Zeros(RoundUp32(n) - n))
            /\ BLen(encoded) = 192 + RoundUp32(n)
            /\ n = 224 => BLen(encoded) = 416

\* The valid_after a request asks for: 0 when the field is absent.
AskedValidAfter(c) == unwrap_or_0(c[1].request.valid_after)

\* Where the valid_until word starts in the hashed buffer: after the offset
\* word, the chain id word and the padded paymaster address.
WindowAt(c) == 32 + 32 + 12 + Len(services[c[1].svc].paymaster_address)

\* C12: an absent valid_after is 0 in the hashed buffer, in paymaster_data
\* and in the response; a present one is used and echoed unchanged, as is
\* valid_until; a request with valid_after > valid_until is not rejected.
C12_ValidAfterDefaultAndEcho ==
    (Handles(last) /\ Executed(last, "hash")) =>
        LET r       == last[1].request
            encoded == last[1].call.encoded
            at      == WindowAt(last)
        IN  /\ Slice(encoded, at, at + 32) = Word(r.valid_until)
            /\ Slice(encoded, at + 32, at + 64) = Word(AskedValidAfter(last))
            /\ ( /\ WellFormed(r.user_operation)
                 /\ "default" \in DOMAIN services[last[1].svc].key_manager )
               => /\ last[1].call.outcome = "Ok"
                  /\ last[1].call.response[1].valid_until = r.valid_until
                  /\ last[1].call.response[1].valid_after = AskedValidAfter(last)
                  /\ last[1].call.response[1].paymaster_data =
                        hex_encode(encode_paymaster_data(last[1].call.signature,
                                       r.valid_until, AskedValidAfter(last)))

\* A KeyManager signing function has returned to a task of service A.
KmSigned == km_last # <<>> /\ km_last[1].op.fn # "get_metrics"

\* C13: signing under a verifier name with no key in the key map fails with
\* VerifierNotFound whatever the message is, in both signing functions of
\* KeyManager, with no signature bytes; sign_sponsorship of the service
\* returns it as the key-manager error, with no response.
C13_UnknownVerifierNotFound ==
    /\ ( /\ KmSigned
         /\ km_last[1].op.verifier_name \notin DOMAIN services["A"].key_manager )
       => /\ km_last[1].res.err = "VerifierNotFound"
          /\ km_last[1].res.sig = <<>>
    /\ ( /\ Handles(last)
         /\ "default" \notin DOMAIN services[last[1].svc].key_manager )
       => /\ last[1].call.outcome = "VerifierNotFound"
          /\ last[1].call.signature = <<>>
          /\ last[1].call.response = NoResponse
          /\ ~Executed(last, "sign")

\* A 32-byte digest signed under an unknown name, and a request served
\* by a service whose "default" key did not load.
C13_Witness ==
    /\ KmSigned
    /\ km_last[1].op.fn = "sign_eip191_message"
    /\ km_last[1].op.message = TestDigest
    /\ km_last[1].op.verifier_name \notin DOMAIN services["A"].key_manager
    /\ km_last[1].res.err = "VerifierNotFound"
    /\ Handles(last)
    /\ last[1].call.outcome = "VerifierNotFound"

\* C14: a signature returned by sign_eip191_message is 65 bytes: r, then s,
\* then v = 27 + the recovery id of the recoverable signature.
C14_SignatureIsRSV ==
    ( /\ KmSigned
      /\ km_last[1].op.fn = "sign_eip191_message"
      /\ km_last[1].res.err = "" )
    => LET signature == sign_ecdsa_recoverable(
                            services["A"].key_manager[km_last[1].op.verifier_name],
                            km_last[1].op.message)
           sig_bytes == km_last[1].res.sig
       IN  /\ BLen(sig_bytes) = 65
           /\ Slice(sig_bytes, 0, 32) = Slice(signature.compact_sig, 0, 32)
           /\ Slice(sig_bytes, 32, 64) = Slice(signature.compact_sig, 32, 64)
           /\ Slice(sig_bytes, 64, 65) = Lit(<<27 + signature.recovery_id>>)
           /\ BLen(Slice(sig_bytes, 0, 32)) = 32
           /\ BLen(Slice(sig_bytes, 32, 64)) = 32

\* A digest signed with recovery id 1: v is 28.
C14_Witness ==
    /\ KmSigned
    /\ km_last[1].op.fn = "sign_eip191_message"
    /\ km_last[1].res.err = ""
    /\ Slice(km_last[1].res.sig, 64, 65) = Lit(<<28>>)

\* C19: no operation changes the key map of a started service, whatever the
\* interleaving of the concurrent calls; the lock is only ever taken for
\* reading, so a call waiting for it can always go on, also while other
\* calls hold it.
C19_KeyMapReadOnly ==
    /\ [](/\ ~lock.writer
          /\ \A t \in Tasks : tasks[t].pc = "waiting" => ENABLED AcquireRead(t)
          /\ services["A"].key_manager = KeyManager_new(loaded_config["A"].verifier_keys))
    /\ [][services' = services]_vars

\* Two calls hold the read guard at once.
C19_Witness ==
    /\ Cardinality(lock.readers) = MaxTasks
    /\ \A t \in Tasks : tasks[t].pc = "reading"
    /\ km_last # <<>>

\* Some hex field of the user operation is not valid hex.
SomeFieldNotHex(user_op) ==
    \E f \in {"sender", "init_code", "call_data", "account_gas_limits", "gas_fees"} :
        ~IsHexField(user_op[f])

\* C15: a request with a hex field of user_operation that is not valid hex
\* is rejected with an encoding error, and nothing is signed for it.
C15_InvalidHexRejected ==
    ( /\ Handles(last)
      /\ ApiKeyAccepted(last)
      /\ last[1].request.valid_until > last[1].at
      /\ SomeFieldNotHex(last[1].request.user_operation) )
    => /\ last[1].call.outcome = "EncodingError"
       /\ ~Executed(last, "hash")
       /\ last[1].call.signature = <<>>

\* C16: on POST /sign an invalid API key and an expired window get a 4xx
\* status, an unknown verifier and a signing failure a 5xx status.
C16_StatusByErrorClass ==
    Handles(last) =>
        /\ last[1].call.outcome \in {"InvalidApiKey", "InvalidTimestamp"}
              => last[1].status \in 400..499
        /\ last[1].call.outcome \in {"VerifierNotFound", "SigningError"}
              => last[1].status \in 500..599

\* C17: a service is only ever available with a usable key for every
\* configured verifier name, so no request fails for want of the key of a
\* configured name.
C17_MisconfiguredKeyFailsStartup ==
    /\ \A s \in Svc :
          DOMAIN loaded_config[s].verifier_keys = DOMAIN services[s].key_manager
    /\ ( /\ Handles(last)
         /\ "default" \in DOMAIN loaded_config[last[1].svc].verifier_keys )
       => last[1].call.outcome # "VerifierNotFound"

\* The stages of a request, in order.
Stages ==
    <<"api_key", "timestamp", "pack", "hash", "eip191", "key_lookup", "digest", "sign",
      "encode">>

\* The stage at which each typed error ends a request.
FailsAt(outcome) ==
    IF outcome = "InvalidApiKey" THEN "api_key"
    ELSE IF outcome = "InvalidTimestamp" THEN "timestamp"
    ELSE IF outcome = "VerifierNotFound" THEN "key_lookup"
    ELSE "digest"

\* C18: every request runs the stages in their fixed order from the first
\* on; it either runs them all and responds, or ends at one stage with the
\* typed error of that stage and no response field; its result depends on
\* nothing but the service, the request and the clock.
C18_StagesInOrder ==
    Handles(last) =>
        LET call == last[1].call
        IN  /\ call.steps = SubSeq(Stages, 1, Len(call.steps))
            /\ call.outcome \in {"Ok", "InvalidApiKey", "InvalidTimestamp",
                                 "VerifierNotFound", "SigningError"}
            /\ IF call.outcome = "Ok"
               THEN call.steps = Stages /\ call.response # NoResponse
               ELSE /\ call.steps[Len(call.steps)] = FailsAt(call.outcome)
                    /\ call.response = NoResponse
                    /\ call.signature = <<>>
            /\ call = sign_sponsorship(services[last[1].svc], last[1].request, last[1].at)

\* C20: get_metrics reports the number of verifiers in the configuration
\* and the fixed status, whatever sign calls came before.
C20_MetricsCountConfigured ==
    (km_last # <<>> /\ km_last[1].op.fn = "get_metrics") =>
        /\ km_last[1].res.verifier_count =
              Cardinality(DOMAIN loaded_config["A"].verifier_keys)
        /\ km_last[1].res.service_status = "healthy"

\* C21: every call of sign_sponsorship ends in Ok with a complete response
\* or in Err with a typed SignatureError, also when a gas field decodes to
\* more than 32 bytes; it never aborts.
C21_OkOrTypedError ==
    Handles(last) =>
        \/ /\ last[1].call.outcome = "Ok"
           /\ last[1].call.response # NoResponse
        \/ /\ last[1].call.outcome \in {"InvalidApiKey", "InvalidTimestamp",
                                        "VerifierNotFound", "SigningError"}
           /\ last[1].call.response = NoResponse

\* C27: sign_sponsorship signs under the name "default" only: without a
\* loaded key of that name every request that passes the API key and the
\* expiry checks fails with VerifierNotFound, whatever other keys are loaded,
\* and a signature is never made with another key.
C27_DefaultVerifierOnly ==
    ( /\ Handles(last)
      /\ ApiKeyAccepted(last)
      /\ last[1].request.valid_until > last[1].at )
    => LET keys == services[last[1].svc].key_manager
       IN  IF "default" \notin DOMAIN keys
           THEN /\ last[1].call.outcome = "VerifierNotFound"
                /\ last[1].call.signature = <<>>
           ELSE \A n \in DOMAIN keys \ {"default"} :
                   \A i \in 1..Len(last[1].call.signature) :
                      last[1].call.signature[i].key # keys[n]

\* A byte string without its leading zero bytes.
RECURSIVE StripZeros(_)
StripZeros(bytes) ==
    IF bytes # <<>> /\ bytes[1] = 0 THEN StripZeros(Tail(bytes)) ELSE bytes

\* Where account_gas_limits starts in the packed operation.
GasLimitsAt(user_op) == 12 + Len(decode_hex(user_op.sender)) + 32 + 32 + 32

\* The two calls packed user operations that differ at most in how many
\* leading zero bytes their gas fields have.
SameUpToGasZeros ==
    /\ Handles(prev) /\ Handles(last)
    /\ Executed(prev, "pack") /\ Executed(last, "pack")
    /\ LET u1 == prev[1].request.user_operation
           u2 == last[1].request.user_operation
       IN  /\ \A f \in PackedFields \ {"account_gas_limits", "gas_fees"} : u1[f] = u2[f]
           /\ \A f \in {"account_gas_limits", "gas_fees"} :
                 StripZeros(decode_hex(u1[f])) = StripZeros(decode_hex(u2[f]))

\* C28: a gas field of k <= 32 bytes is packed as 32 - k zero bytes followed
\* by the k bytes, a 32-byte one unchanged; two requests whose gas fields
\* differ only by leading zero bytes give the same packed buffer.
C28_GasFieldsRightAligned ==
    /\ (Handles(last) /\ Executed(last, "hash")) =>
          LET u      == last[1].request.user_operation
              packed == last[1].call.packed
              limits == decode_hex(u.account_gas_limits)
              fees   == decode_hex(u.gas_fees)
              at     == GasLimitsAt(u)
          IN  /\ Slice(packed, at, at + 32 - Len(limits)) = Lit(Zeros(32 - Len(limits)))
              /\ Slice(packed, at + 32 - Len(limits), at + 32) = Lit(limits)
              /\ Slice(packed, at + 64, at + 96 - Len(fees)) = Lit(Zeros(32 - Len(fees)))
              /\ Slice(packed, at + 96 - Len(fees), at + 96) = Lit(fees)
              /\ BLen(packed) = at + 96
    /\ SameUpToGasZeros => prev[1].call.packed = last[1].call.packed

\* The 16-byte account_gas_limits of the test request and the same value
\* written with 16 more leading zero bytes, packed to the same buffer.
C28_Witness ==
    /\ SameUpToGasZeros
    /\ Len(decode_hex(prev[1].request.user_operation.account_gas_limits)) = 16
    /\ Len(decode_hex(last[1].request.user_operation.account_gas_limits)) = 32
    /\ prev[1].call.packed = last[1].call.packed
    /\ BLen(last[1].call.packed) = 224

\* C30: every started service holds a paymaster address of exactly 20
\* bytes, so the hashed buffer has its length word at offset 160 and a
\* length that is a multiple of 32.
C30_PaymasterAddress20Bytes ==
    /\ \A s \in Svc : Len(services[s].paymaster_address) = 20
    /\ (Handles(last) /\ Executed(last, "hash")) =>
          /\ Slice(last[1].call.encoded, 0, 32) = Word(160)
          /\ Slice(last[1].call.encoded, 160, 192) = Word(BLen(last[1].call.packed))
          /\ BLen(last[1].call.encoded) % 32 = 0

\* ----------------------------------------------------------------- client
\* U256: 32 bytes, big-endian.
U256_from(bytes) == Zeros(32 - Len(bytes)) \o bytes

\* The bitwise or and and of two bytes.
RECURSIVE BitOr(_, _, _)
BitOr(a, b, bits) ==
    IF bits = 0 THEN 0
    ELSE (IF a % 2 = 1 \/ b % 2 = 1 THEN 1 ELSE 0) + 2 * BitOr(a \div 2, b \div 2, bits - 1)

RECURSIVE BitAnd(_, _, _)
BitAnd(a, b, bits) ==
    IF bits = 0 THEN 0
    ELSE (IF a % 2 = 1 /\ b % 2 = 1 THEN 1 ELSE 0) + 2 * BitAnd(a \div 2, b \div 2, bits - 1)

\* U256 | and &.
U256_bitor(x, y) == [i \in 1..32 |-> BitOr(x[i], y[i], 8)]

U256_bitand(x, y) == [i \in 1..32 |-> BitAnd(x[i], y[i], 8)]

\* U256 << and >> by a whole number of bytes: the bits shifted out are lost.
U256_shl(x, bits) == Drop(x, bits \div 8) \o Zeros(bits \div 8)

U256_shr(x, bits) == Zeros(bits \div 8) \o SubSeq(x, 1, 32 - bits \div 8)

\* U256 < and <=.
U256_lt(x, y) == LexLess(x, y)

U256_le(x, y) == x = y \/ LexLess(x, y)

\* U256::from(u64::MAX)
U64_MAX == U256_from(Rep(<<255>>, 8))

\* pack_nonce with the key shifted by 32 bits only.
pack_nonce_shl32(key, sequence) == U256_bitor(U256_shl(key, 32), sequence)

\* NonceManager::pack_nonce
pack_nonce(key, sequence) == U256_bitor(U256_shl(key, 64), sequence)

\* NonceManager::extract_nonce_key
extract_nonce_key(packed_nonce) == U256_shr(packed_nonce, 64)

\* NonceManager::extract_sequence_number
extract_sequence_number(packed_nonce) == U256_bitand(packed_nonce, U64_MAX)

\* Nonce keys: 0, 42, 2^192 - 1, 2^192 and 2^256 - 1.
NonceKeys ==
    { U256_from(<<>>), U256_from(<<42>>), U256_from(Rep(<<255>>, 24)),
      U256_from(<<1>> \o Zeros(24)), Rep(<<255>>, 32) }

\* Sequence numbers: 0, 100, u32::MAX, u64::MAX, 2^64, 2^64 + 100, 2^256 - 1.
NonceSequences ==
    { U256_from(<<>>), U256_from(<<100>>), U256_from(Rep(<<255>>, 4)), U64_MAX,
      U256_from(<<1>> \o Zeros(8)), U256_from(<<1>> \o Zeros(7) \o <<100>>),
      Rep(<<255>>, 32) }

\* A call of a client function and what it returned.
ClientCall(fn, args, res) == <<[fn |-> fn, args |-> args, res |-> res]>>

\* test_nonce_packing: pack a key and a sequence, extract both again.
PackNonce(key, sequence) ==
    /\ client_last' = ClientCall("pack_nonce", [key |-> key, sequence |-> sequence],
            [packed             |-> pack_nonce(key, sequence),
             extracted_key      |-> extract_nonce_key(pack_nonce(key, sequence)),
             extracted_sequence |-> extract_sequence_number(pack_nonce(key, sequence))])
    /\ UNCHANGED <<service_vars, entry_point_nonce, nonce_task>>

Called(fn) == client_last # <<>> /\ client_last[1].fn = fn

\* 2^192 and 2^64.
TwoTo192 == U256_from(<<1>> \o Zeros(24))
TwoTo64 == U256_from(<<1>> \o Zeros(8))

\* C23: for key < 2^192 and sequence < 2^64 the key and the sequence
\* extracted from pack_nonce(key, sequence) are the ones packed; for all keys
\* and sequences the extracted sequence is at most the one supplied.
C23_NonceRoundTrip ==
    Called("pack_nonce") =>
        LET a == client_last[1].args
            r == client_last[1].res
        IN  /\ (U256_lt(a.key, TwoTo192) /\ U256_lt(a.sequence, TwoTo64))
                  => /\ r.extracted_key = a.key
                     /\ r.extracted_sequence = a.sequence
            /\ U256_le(r.extracted_sequence, a.sequence)

\* The largest key and the largest sequence that fit, packed and extracted.
C23_Witness ==
    /\ Called("pack_nonce")
    /\ client_last[1].args.key = U256_from(Rep(<<255>>, 24))
    /\ client_last[1].args.sequence = U64_MAX
    /\ client_last[1].res.packed = Rep(<<255>>, 32)
    /\ client_last[1].res.extracted_key = client_last[1].args.key

\* ------------------------------------------------------ client validation
\* const MAX_FEE_PER_GAS: u64 = 1000_000_000_000, MAX_PRIORITY_FEE: u64 =
\* 100_000_000_000, MIN_GAS_PRICE: u64 = 1_000_000_000, as U256.
MAX_FEE_PER_GAS == U256_from(<<232, 212, 165, 16, 0>>)
MAX_PRIORITY_FEE == U256_from(<<23, 72, 118, 232, 0>>)
MIN_GAS_PRICE == U256_from(<<59, 154, 202, 0>>)

\* Result<()>: <<"Ok">> or the message of the ValidationError.
\* validate_address
validate_address(address, field_name) ==
    IF address = Zeros(20) THEN <<field_name, "cannot be zero address">> ELSE <<"Ok">>

\* validate_gas_amount
validate_gas_amount(gas, field_name, min, max) ==
    IF U256_lt(max, gas) THEN <<field_name, "too high">>
    ELSE IF U256_lt(gas, min) THEN <<field_name, "too low">>
    ELSE <<"Ok">>

PriorityAboveMaxFee == <<"Max priority fee cannot be higher than max fee per gas">>

\* validate_gas_fees checking the priority fee before the max fee.
validate_gas_fees_priority_first(max_fee, priority_fee) ==
    IF validate_gas_amount(priority_fee, "Max priority fee", U256_from(<<>>),
                           MAX_PRIORITY_FEE) # <<"Ok">>
    THEN validate_gas_amount(priority_fee, "Max priority fee", U256_from(<<>>),
                             MAX_PRIORITY_FEE)
    ELSE IF validate_gas_amount(max_fee, "Max fee per gas", MIN_GAS_PRICE,
                                MAX_FEE_PER_GAS) # <<"Ok">>
    THEN validate_gas_amount(max_fee, "Max fee per gas", MIN_GAS_PRICE, MAX_FEE_PER_GAS)
    ELSE IF U256_lt(max_fee, priority_fee) THEN PriorityAboveMaxFee
    ELSE <<"Ok">>

\* validate_gas_fees
validate_gas_fees(max_fee, priority_fee) ==
    IF validate_gas_amount(max_fee, "Max fee per gas", MIN_GAS_PRICE,
                           MAX_FEE_PER_GAS) # <<"Ok">>
    THEN validate_gas_amount(max_fee, "Max fee per gas", MIN_GAS_PRICE, MAX_FEE_PER_GAS)
    ELSE IF validate_gas_amount(priority_fee, "Max priority fee", U256_from(<<>>),
                                MAX_PRIORITY_FEE) # <<"Ok">>
    THEN validate_gas_amount(priority_fee, "Max priority fee", U256_from(<<>>),
                             MAX_PRIORITY_FEE)
    ELSE IF U256_lt(max_fee, priority_fee) THEN PriorityAboveMaxFee
    ELSE <<"Ok">>

\* validate_init_code
validate_init_code(init_code) ==
    IF init_code = <<>> THEN <<"Ok">>
    ELSE IF Len(init_code) < 20 THEN <<"InitCode too short - must be at least 20 bytes">>
    ELSE IF SubSeq(init_code, 1, 20) = Zeros(20)
    THEN <<"Factory address in initCode cannot be zero">>
    ELSE <<"Ok">>

BothEmpty ==
    <<"Both callData and initCode cannot be empty - account creation or execution required">>

\* validate_user_operation_basic checking the signature before init_code.
validate_user_operation_basic_signature_first(sender, call_data, init_code, signature) ==
    IF validate_address(sender, "Sender") # <<"Ok">> THEN validate_address(sender, "Sender")
    ELSE IF call_data = <<>> /\ init_code = <<>> THEN BothEmpty
    ELSE IF signature = <<>> THEN <<"Signature cannot be empty">>
    ELSE IF validate_init_code(init_code) # <<"Ok">> THEN validate_init_code(init_code)
    ELSE <<"Ok">>

\* validate_user_operation_basic
validate_user_operation_basic(sender, call_data, init_code, signature) ==
    IF validate_address(sender, "Sender") # <<"Ok">> THEN validate_address(sender, "Sender")
    ELSE IF call_data = <<>> /\ init_code = <<>> THEN BothEmpty
    ELSE IF validate_init_code(init_code) # <<"Ok">> THEN validate_init_code(init_code)
    ELSE IF signature = <<>> THEN <<"Signature cannot be empty">>
    ELSE <<"Ok">>

\* Fees in wei: 0, 1 gwei - 1, 1 gwei, 2 gwei, 100 gwei, 100 gwei + 1,
\* 1000 gwei, 1000 gwei + 1, 2^256 - 1.
Fees ==
    { U256_from(<<>>), U256_from(<<59, 154, 201, 255>>), MIN_GAS_PRICE,
      U256_from(<<119, 53, 148, 0>>), MAX_PRIORITY_FEE, U256_from(<<23, 72, 118, 232, 1>>),
      MAX_FEE_PER_GAS, U256_from(<<232, 212, 165, 16, 1>>), Rep(<<255>>, 32) }

\* Addresses: zero and [1u8; 20].
Addresses == { Zeros(20), Rep(<<1>>, 20) }

\* init_code values: empty, 19 bytes, a zero factory with and without
\* factory data, a factory alone, a factory with data.
InitCodes ==
    { <<>>, Rep(<<1>>, 19), Zeros(20), Zeros(20) \o <<1, 2, 3, 4>>, Rep(<<1>>, 20),
      Rep(<<1>>, 20) \o <<1, 2, 3, 4>> }

ByteStrings == { <<>>, <<1, 2, 3, 4>> }

ValidateGasFees(max_fee, priority_fee) ==
    /\ client_last' = ClientCall("validate_gas_fees",
            [max_fee |-> max_fee, priority_fee |-> priority_fee],
            validate_gas_fees(max_fee, priority_fee))
    /\ UNCHANGED <<service_vars, entry_point_nonce, nonce_task>>

ValidateUserOperationBasic(sender, call_data, init_code, signature) ==
    /\ client_last' = ClientCall("validate_user_operation_basic",
            [sender |-> sender, call_data |-> call_data, init_code |-> init_code,
             signature |-> signature],
            validate_user_operation_basic(sender, call_data, init_code, signature))
    /\ UNCHANGED <<service_vars, entry_point_nonce, nonce_task>>

\* C25: validate_gas_fees returns Ok exactly when 1 gwei <= max_fee <= 1000
\* gwei, priority_fee <= 100 gwei and priority_fee <= max_fee; otherwise the
\* error is the first of: max_fee too high, max_fee too low, priority_fee
\* too high, priority_fee above max_fee.
C25_GasFeeBounds ==
    Called("validate_gas_fees") =>
        LET max_fee      == client_last[1].args.max_fee
            priority_fee == client_last[1].args.priority_fee
            res          == client_last[1].res
        IN  /\ res = <<"Ok">> <=> /\ U256_le(MIN_GAS_PRICE, max_fee)
                              /\ U256_le(max_fee, MAX_FEE_PER_GAS)
                              /\ U256_le(priority_fee, MAX_PRIORITY_FEE)
                              /\ U256_le(priority_fee, max_fee)
            /\ res = IF ~U256_le(max_fee, MAX_FEE_PER_GAS)
                     THEN <<"Max fee per gas", "too high">>
                     ELSE IF ~U256_le(MIN_GAS_PRICE, max_fee)
                     THEN <<"Max fee per gas", "too low">>
                     ELSE IF ~U256_le(priority_fee, MAX_PRIORITY_FEE)
                     THEN <<"Max priority fee", "too high">>
                     ELSE IF ~U256_le(priority_fee, max_fee)
                     THEN PriorityAboveMaxFee
                     ELSE <<"Ok">>

\* A max_fee below 1 gwei with a priority_fee above 100 gwei: the error is
\* the one of max_fee.
C25_Witness ==
    /\ Called("validate_gas_fees")
    /\ U256_lt(client_last[1].args.max_fee, MIN_GAS_PRICE)
    /\ U256_lt(MAX_PRIORITY_FEE, client_last[1].args.priority_fee)
    /\ client_last[1].res = <<"Max fee per gas", "too low">>

\* The init_code is empty, or at least 20 bytes with a non-zero factory.
InitCodeAcceptable(init_code) ==
    \/ init_code = <<>>
    \/ Len(init_code) >= 20 /\ \E i \in 1..20 : init_code[i] # 0

\* C26: validate_user_operation_basic returns Ok exactly when the sender is
\* not zero, call_data and init_code are not both empty, init_code is empty
\* or has a non-zero factory in its first 20 bytes, and the signature is not
\* empty; otherwise the error is the first of these in that order.
C26_BasicValidation ==
    Called("validate_user_operation_basic") =>
        LET a   == client_last[1].args
            res == client_last[1].res
        IN  /\ res = <<"Ok">> <=> /\ a.sender # Zeros(20)
                              /\ ~(a.call_data = <<>> /\ a.init_code = <<>>)
                              /\ InitCodeAcceptable(a.init_code)
                              /\ a.signature # <<>>
            /\ IF a.sender = Zeros(20) THEN res = <<"Sender", "cannot be zero address">>
               ELSE IF a.call_data = <<>> /\ a.init_code = <<>> THEN res = BothEmpty
               ELSE IF ~InitCodeAcceptable(a.init_code)
               THEN res \in {<<"InitCode too short - must be at least 20 bytes">>,
                             <<"Factory address in initCode cannot be zero">>}
               ELSE IF a.signature = <<>> THEN res = <<"Signature cannot be empty">>
               ELSE res = <<"Ok">>

\* A zero factory and an empty signature: the error is the one of init_code.
C26_Witness ==
    /\ Called("validate_user_operation_basic")
    /\ client_last[1].args.sender # Zeros(20)
    /\ client_last[1].args.init_code = Zeros(20) \o <<1, 2, 3, 4>>
    /\ client_last[1].args.signature = <<>>
    /\ client_last[1].res = <<"Factory address in initCode cannot be zero">>

\* ----------------------------------------------------------- client nonce
\* The EntryPoint nonce of the account is followed up to MaxNonce.
MaxNonce == 3

\* requested_nonce: None is <<>>, Some(n) is <<n>>.
RequestedNonces == {<<>>} \cup { <<n>> : n \in 0..MaxNonce }

\* Result<U256>: Ok(nonce), or Err(AAError::NonceError) with its message and
\* the current nonce it quotes.
NonceOk(nonce) == [kind |-> "Ok", nonce |-> <<nonce>>, msg |-> "", current |-> <<>>]

NonceError(msg, current) ==
    [kind |-> "NonceError", nonce |-> <<>>, msg |-> msg, current |-> current]

\* is_nonce_valid with > for >=.
is_nonce_valid_strict(nonce, current_nonce) == nonce > current_nonce

\* NonceManager::is_nonce_valid, once get_current_nonce has returned.
is_nonce_valid(nonce, current_nonce) == nonce >= current_nonce

\* A call of get_validated_nonce: where it is (pc), the nonce asked for,
\* the EntryPoint nonce when its first getNonce was answered or failed
\* (at_check), the value that getNonce returned (read) and its result.
NonceTask(pc, requested, at_check, read, result) ==
    <<[pc |-> pc, requested |-> requested, at_check |-> at_check, read |-> read,
       result |-> result]>>

\* NonceManager::get_validated_nonce is called; its first getNonce is sent.
GetValidatedNonce(requested_nonce) ==
    /\ IF nonce_task = <<>> THEN TRUE ELSE nonce_task[1].pc = "done"
    /\ nonce_task' = NonceTask("check", requested_nonce, <<>>, <<>>, <<>>)
    /\ UNCHANGED <<service_vars, client_last, entry_point_nonce>>

\* The first getNonce returns: get_next_nonce for None, is_nonce_valid for
\* Some(nonce).
CheckReturns ==
    /\ nonce_task # <<>> /\ nonce_task[1].pc = "check"
    /\ nonce_task' =
          IF nonce_task[1].requested = <<>>
          THEN NonceTask("done", <<>>, <<entry_point_nonce>>, <<entry_point_nonce>>,
                         <<NonceOk(entry_point_nonce)>>)
          ELSE IF is_nonce_valid(nonce_task[1].requested[1], entry_point_nonce)
          THEN NonceTask("done", nonce_task[1].requested, <<entry_point_nonce>>,
                         <<entry_point_nonce>>, <<NonceOk(nonce_task[1].requested[1])>>)
          ELSE NonceTask("report", nonce_task[1].requested, <<entry_point_nonce>>,
                         <<entry_point_nonce>>, <<>>)
    /\ UNCHANGED <<service_vars, client_last, entry_point_nonce>>

\* The second getNonce returns: the nonce quoted in the error.
ReportReturns ==
    /\ nonce_task # <<>> /\ nonce_task[1].pc = "report"
    /\ nonce_task' = [nonce_task EXCEPT ![1].pc = "done",
                         ![1].result = <<NonceError("Invalid nonce", <<entry_point_nonce>>)>>]
    /\ UNCHANGED <<service_vars, client_last, entry_point_nonce>>

\* A getNonce call fails: map_err gives NonceError("Failed to get nonce").
GetNonceFails ==
    /\ nonce_task # <<>> /\ nonce_task[1].pc \in {"check", "report"}
    /\ nonce_task' = [nonce_task EXCEPT ![1].pc = "done",
                         ![1].at_check = IF nonce_task[1].pc = "check"
                                         THEN <<entry_point_nonce>> ELSE @,
                         ![1].result = <<NonceError("Failed to get nonce", <<>>)>>]
    /\ UNCHANGED <<service_vars, client_last, entry_point_nonce>>

\* The EntryPoint executes an operation of the account.
HandleOps ==
    /\ entry_point_nonce < MaxNonce
    /\ entry_point_nonce' = entry_point_nonce + 1
    /\ UNCHANGED <<service_vars, client_last, nonce_task>>

InitNonce == Started({TestConfig})

NextNonce ==
    \/ \E requested_nonce \in RequestedNonces : GetValidatedNonce(requested_nonce)
    \/ CheckReturns
    \/ ReportReturns
    \/ GetNonceFails
    \/ HandleOps

SpecNonce == InitNonce /\ [][NextNonce]_vars

NonceDone == nonce_task # <<>> /\ nonce_task[1].pc = "done"

\* C24 as stated: with a requested nonce n the result is Ok(n) exactly when
\* n >= the EntryPoint nonce at the time of the check and a NonceError
\* otherwise; with none it is the EntryPoint nonce; the nonce returned is
\* never below the EntryPoint nonce read.
C24_ValidatedNonce ==
    NonceDone =>
        LET t      == nonce_task[1]
            result == t.result[1]
        IN  /\ result.kind \in {"Ok", "NonceError"}
            /\ IF t.requested = <<>>
               THEN result = NonceOk(t.at_check[1])
               ELSE result = NonceOk(t.requested[1]) <=> t.requested[1] >= t.at_check[1]
            /\ result.kind = "Ok" => result.nonce[1] >= t.at_check[1]
            /\ result.kind = "NonceError" => result.nonce = <<>>

\* C24 with the failure of the call to the EntryPoint: Ok(n) exactly when
\* the getNonce of the check returned a value and n >= that value; with no
\* requested nonce, Ok of the value getNonce returned; a NonceError in all
\* other cases; no nonce returned is below the value read.
C24_ValidatedNonceWhenRead ==
    NonceDone =>
        LET t      == nonce_task[1]
            result == t.result[1]
        IN  /\ result.kind \in {"Ok", "NonceError"}
            /\ IF t.requested = <<>>
               THEN IF t.read = <<>> THEN result.kind = "NonceError"
                    ELSE result = NonceOk(t.read[1])
               ELSE result = NonceOk(t.requested[1])
                       <=> (t.read # <<>> /\ t.requested[1] >= t.read[1])
            /\ result.kind = "Ok" =>
                  /\ t.read # <<>>
                  /\ result.nonce[1] >= t.read[1]
                  /\ t.read = t.at_check
            /\ result.kind = "NonceError" => result.nonce = <<>>

\* A requested nonce below the one read is refused, one equal to it is
\* returned.
C24_Witness ==
    /\ NonceDone
    /\ nonce_task[1].requested # <<>>
    /\ nonce_task[1].read # <<>>
    /\ nonce_task[1].requested[1] = nonce_task[1].read[1]
    /\ nonce_task[1].requested[1] > 0
    /\ nonce_task[1].result[1] = NonceOk(nonce_task[1].requested[1])
    /\ entry_point_nonce > nonce_task[1].read[1]

\* ------------------------------------------------------- client paymaster
\* What POST /sign answered: whether the status is a success, and the
\* fields of PaymasterServiceResponse.
ServiceResponse(success, signature, valid_until, valid_after, paymaster_data) ==
    [success |-> success, signature |-> signature, valid_until |-> valid_until,
     valid_after |-> valid_after, paymaster_data |-> paymaster_data]

\* PaymasterConfig
PaymasterConfig(signature, valid_until, valid_after) ==
    [paymaster_address |-> Rep(<<1>>, 20), signature |-> signature,
     valid_until |-> valid_until, valid_after |-> valid_after]

\* PaymasterService::request_sponsorship from the response on:
\* Result<PaymasterConfig> as [err, config].
request_sponsorship(service_response) ==
    IF ~service_response.success
    THEN [err |-> "Paymaster service error", config |-> <<>>]
    ELSE IF service_response.signature = Str0x /\ service_response.paymaster_data = Str0x
    THEN [err |-> "", config |-> <<PaymasterConfig(Zeros(65), service_response.valid_until,
                                                   service_response.valid_after)>>]
    ELSE IF ~hex_decode_ok(service_response.signature)
    THEN [err |-> "FromHexError", config |-> <<>>]
    ELSE IF Len(hex_decode(service_response.signature)) # 65
    THEN [err |-> "Invalid signature length", config |-> <<>>]
    ELSE [err |-> "", config |-> <<PaymasterConfig(hex_decode(service_response.signature),
                                       service_response.valid_until,
                                       service_response.valid_after)>>]

\* PaymasterService::build_paymaster_and_data
build_paymaster_and_data(config) ==
    IF config.signature[1] = 0 THEN <<>>
    ELSE config.signature \o ToBeBytes(config.valid_until, 8)
                          \o ToBeBytes(config.valid_after, 8)

\* 65-byte signatures r || s || v: one whose r starts with a non-zero byte,
\* one whose r starts with a zero byte; and a 64-byte compact signature.
SigBytes == <<18>> \o Rep(<<52>>, 63) \o <<27>>
SigBytesZeroLed == <<0>> \o Rep(<<52>>, 63) \o <<28>>
SigBytesCompact == <<18>> \o Rep(<<52>>, 63)

\* The response of a VerifierSignaturePaymaster service for a signature:
\* hex::encode of the signature and of encode_paymaster_data.
VerifierResponse(signature, valid_until, valid_after) ==
    ServiceResponse(TRUE, hex_encode_bytes(signature), valid_until, valid_after,
        hex_encode_bytes(signature \o ToBeBytes(valid_until, 8)
                                   \o ToBeBytes(valid_after, 8)))

ServiceResponses ==
    { VerifierResponse(sig, MaxTime + 1, va) :
          sig \in {SigBytes, SigBytesZeroLed, SigBytesCompact}, va \in {0, 1} }
    \cup { ServiceResponse(TRUE, Str0x, MaxTime + 1, 0, Str0x),
           ServiceResponse(TRUE, Str0x \o hex_encode_bytes(SigBytes), MaxTime + 1, 0, Str0x),
           ServiceResponse(FALSE, <<>>, 0, 0, <<>>) }

\* The client asks for sponsorship and builds paymasterAndData from the
\* PaymasterConfig it gets.
RequestSponsorship(service_response) ==
    /\ client_last' = ClientCall("request_sponsorship", service_response,
            [err    |-> request_sponsorship(service_response).err,
             config |-> request_sponsorship(service_response).config,
             paymaster_and_data |->
                 IF request_sponsorship(service_response).err # "" THEN <<>>
                 ELSE <<build_paymaster_and_data(
                            request_sponsorship(service_response).config[1])>>])
    /\ UNCHANGED <<service_vars, entry_point_nonce, nonce_task>>

\* The response is the SimplePaymaster one.
IsSimpleResponse(service_response) ==
    service_response.signature = Str0x /\ service_response.paymaster_data = Str0x

\* C22: for a PaymasterConfig built from a response with a 65-byte
\* signature, build_paymaster_and_data returns the 81 bytes signature,
\* valid_until, valid_after, the bytes of the service's paymaster_data; it
\* returns empty data for the SimplePaymaster response only.
C22_PaymasterAndDataMatchesService ==
    (Called("request_sponsorship") /\ client_last[1].res.err = "") =>
        LET r    == client_last[1].args
            data == client_last[1].res.paymaster_and_data[1]
        IN  IF IsSimpleResponse(r) THEN data = <<>>
            ELSE /\ Len(data) = 81
                 /\ data = hex_decode(r.signature) \o ToBeBytes(r.valid_until, 8)
                                                   \o ToBeBytes(r.valid_after, 8)
                 /\ data = hex_decode(r.paymaster_data)

\* A string without its leading "0" characters, one character at least.
RECURSIVE StripLeadingZeroDigits(_)
StripLeadingZeroDigits(str) ==
    IF Len(str) > 1 /\ str[1] = "0" THEN StripLeadingZeroDigits(Tail(str)) ELSE str

\* format!("{:0width$x}", value) of a U256: the hex digits of the value,
\* padded with zeros on the left up to width characters, never cut.
FormatLowerHex(value, width) ==
    Rep(<<"0">>, width - Len(StripLeadingZeroDigits(hex_encode_bytes(value))))
    \o StripLeadingZeroDigits(hex_encode_bytes(value))

\* U256::to_string of a small value: its decimal digits.
RECURSIVE to_string(_)
to_string(n) ==
    IF n < 10 THEN <<HexDigits[n + 1]>>
    ELSE to_string(n \div 10) \o <<HexDigits[(n % 10) + 1]>>

\* PaymasterService::convert_user_operation: Option fields are <<>> or
\* <<value>>, unwrap_or_default gives zero and empty bytes.
unwrap_or_default(option, default) == IF option = <<>> THEN default ELSE option[1]

convert_user_operation(user_op) ==
    [sender               |-> Str0x \o hex_encode_bytes(unwrap_or_default(user_op.sender, Zeros(20))),
     nonce                |-> to_string(unwrap_or_default(user_op.nonce, 0)),
     init_code            |->
        Str0x \o hex_encode_bytes(
            IF user_op.factory # <<>> /\ user_op.factory_data # <<>>
            THEN user_op.factory[1] \o user_op.factory_data[1] ELSE <<>>),
     call_data            |-> Str0x \o hex_encode_bytes(unwrap_or_default(user_op.call_data, <<>>)),
     account_gas_limits   |->
        Str0x \o FormatLowerHex(unwrap_or_default(user_op.verification_gas_limit, Zeros(32)), 32)
              \o FormatLowerHex(unwrap_or_default(user_op.call_gas_limit, Zeros(32)), 32),
     pre_verification_gas |-> to_string(unwrap_or_default(user_op.pre_verification_gas, 0)),
     gas_fees             |->
        Str0x \o FormatLowerHex(unwrap_or_default(user_op.max_priority_fee_per_gas, Zeros(32)), 32)
              \o FormatLowerHex(unwrap_or_default(user_op.max_fee_per_gas, Zeros(32)), 32),
     paymaster_and_data   |-> Str0x]

\* Gas values: 1 000 000, 2^128 - 1, 2^128, 2^132 and 2^256 - 1.
GasValues ==
    { U256_from(<<15, 66, 64>>), U256_from(Rep(<<255>>, 16)), U256_from(<<1>> \o Zeros(16)),
      U256_from(<<16>> \o Zeros(16)), Rep(<<255>>, 32) }

\* UserOperationRequest values.
UserOperationRequests ==
    { [sender                   |-> <<Rep(<<1>>, 20)>>,
       nonce                    |-> <<1>>,
       factory                  |-> f,
       factory_data             |-> f,
       call_data                |-> <<<<18, 52>>>>,
       pre_verification_gas     |-> <<21000>>,
       verification_gas_limit   |-> v,
       call_gas_limit           |-> <<U256_from(<<15, 66, 64>>)>>,
       max_priority_fee_per_gas |-> <<MIN_GAS_PRICE>>,
       max_fee_per_gas          |-> m] :
        f \in {<<>>, <<Rep(<<2>>, 20)>>},
        v \in {<<>>} \cup { <<g>> : g \in GasValues },
        m \in { <<U256_from(<<119, 53, 148, 0>>)>>, <<U256_from(<<1>> \o Zeros(16))>> } }

ConvertUserOperation(user_op) ==
    /\ client_last' = ClientCall("convert_user_operation", user_op,
                                 convert_user_operation(user_op))
    /\ UNCHANGED <<service_vars, entry_point_nonce, nonce_task>>

InitClient == Started({TestConfig})

NextClient ==
    \/ \E key \in NonceKeys, sequence \in NonceSequences : PackNonce(key, sequence)
    \/ \E max_fee \in Fees, priority_fee \in Fees : ValidateGasFees(max_fee, priority_fee)
    \/ \E sender \in Addresses, call_data \in ByteStrings, init_code \in InitCodes,
          signature \in ByteStrings :
          ValidateUserOperationBasic(sender, call_data, init_code, signature)
    \/ \E service_response \in ServiceResponses : RequestSponsorship(service_response)
    \/ \E user_op \in UserOperationRequests : ConvertUserOperation(user_op)

SpecClient == InitClient /\ [][NextClient]_vars

\* The low 16 bytes of a U256.
Low16(value) == SubSeq(value, 17, 32)

\* C29: the account_gas_limits and gas_fees strings of convert_user_operation
\* decode to exactly 32 bytes, two 16-byte big-endian halves, for all 256-bit
\* gas values, so pack_for_paymaster never gets a longer gas field from it.
C29_ClientGasFields32Bytes ==
    Called("convert_user_operation") =>
        LET u == client_last[1].args
            r == client_last[1].res
        IN  /\ IsHexField(r.account_gas_limits)
            /\ decode_hex(r.account_gas_limits) =
                  Low16(unwrap_or_default(u.verification_gas_limit, Zeros(32)))
                  \o Low16(unwrap_or_default(u.call_gas_limit, Zeros(32)))
            /\ IsHexField(r.gas_fees)
            /\ decode_hex(r.gas_fees) =
                  Low16(unwrap_or_default(u.max_priority_fee_per_gas, Zeros(32)))
                  \o Low16(unwrap_or_default(u.max_fee_per_gas, Zeros(32)))
            /\ Len(decode_hex(r.account_gas_limits)) = 32
            /\ Len(decode_hex(r.gas_fees)) = 32

====
